---- MODULE Spec2Model ----
(***************************************************************************)
(* A model of run.py, the lifecycle supervisor of one OCI container.       *)
(*                                                                         *)
(* The supervisor is one Python thread.  Its SIGCHLD handler (_reap) runs  *)
(* in that same thread, between two bytecodes or when a blocking system    *)
(* call is interrupted.  The children (runtime subcommands, hooks and the  *)
(* container's main process, which the subreaper setting reparents to the  *)
(* supervisor) are independent OS processes that exit on their own.        *)
(*                                                                         *)
(* SIGCHLD is a standard signal: it is not queued, so any number of child  *)
(* exits before the handler is entered leave one pending notification.     *)
(***************************************************************************)
EXTENDS Integers, Sequences, FiniteSets, TLC

\* Longest hook list of one event in the hook file.
MaxHooks == 2

VARIABLES
    hookFile,      \* hooks.json: whether it exists and the JSON object in it
    pc,            \* the supervisor's position in main / _run_hook / _delete
    hooks,         \* main's `hooks`
    handler,       \* TRUE once _reap is installed for SIGCHLD
    subreaper,     \* TRUE once the process is a child subreaper
    children,      \* pids of running children
    zombies,       \* pids of exited children no wait call has collected yet
    exited,        \* pid -> how the process ended, for every process that ended
    ledger,        \* _REAPED_CHILDREN
    sigPending,    \* a SIGCHLD has arrived and _reap has not been entered for it
    handlerDepth,  \* number of _reap activations in progress
    launched,      \* the Popen calls that succeeded, in order
    nextPid,       \* the next pid the OS hands out
    container,     \* the pid of the container's main process, 0 while there is none
    stdout,        \* what the state subcommand wrote to its output stream
    process,       \* the pid of the Popen object the current wait loop waits on
    state_bytes,   \* main's `state_bytes`
    container_pid, \* main's `container_pid`
    status,        \* main's `status`
    event,         \* the hook list being run
    i,             \* the index of the hook being run
    deleteFrom,    \* the call site of the _delete in progress
    exitCode,      \* the argument of sys.exit, -1 before it is called
    error          \* the exception that ended the run unhandled, "none" if none

vars == <<hookFile, pc, hooks, handler, subreaper, children, zombies, exited,
          ledger, sigPending, handlerDepth, launched, nextPid, container, stdout,
          process, state_bytes, container_pid, status, event, i, deleteFrom,
          exitCode, error>>

----------------------------------------------------------------------------
(* The hook file.  Of a hook object the supervisor's control flow reads    *)
(* only whether it has a timeout key; args, path and env go to Popen.      *)

EventNames == {"prestart", "poststart", "poststop"}

HookObjects == [timeout : BOOLEAN]

HookLists == UNION {[1..n -> HookObjects] : n \in 0..MaxHooks}

\* {} in Python: the mapping with no key
EmptyDict == [ev \in {} |-> <<>>]

HookFiles ==
    {[present |-> FALSE, content |-> EmptyDict]}
    \cup {[present |-> TRUE, content |-> c] : c \in [EventNames -> HookLists]}

\* hooks.get(event, [])
HooksGet(h, ev) == IF ev \in DOMAIN h THEN h[ev] ELSE <<>>

\* a _get_hooks that falls back to one built-in prestart hook when the file is
\* missing
LoadedHooksFallback(file) ==
    IF file.present THEN file.content
    ELSE [ev \in {"prestart"} |-> <<[timeout |-> FALSE]>>]

\* what _get_hooks binds `hooks` to: {} for a missing file, else the JSON object
LoadedHooks(file) == IF file.present THEN file.content ELSE EmptyDict

\* a _get_hooks that validates the prestart hooks only
HasTimeoutPrestart(h) ==
    \E k \in DOMAIN HooksGet(h, "prestart") : HooksGet(h, "prestart")[k].timeout

\* the check of lines 64-67
HasTimeoutHook(h) ==
    \E ev \in EventNames : \E k \in DOMAIN HooksGet(h, ev) : HooksGet(h, ev)[k].timeout

----------------------------------------------------------------------------
(* How a process ends, and the status os.wait() reports for it: the exit   *)
(* code in the high byte, the terminating signal in the low byte.          *)

Exit(n) == [kind |-> "exit", n |-> n]

Signal(n) == [kind |-> "signal", n |-> n]

WaitStatus(o) == IF o.kind = "exit" THEN o.n * 256 ELSE o.n

Outcomes(role) ==
    CASE role = "container" -> {Exit(0), Exit(9), Exit(200), Signal(9)}
      [] role \in EventNames -> {Exit(0), Exit(17)}
      [] OTHER -> {Exit(0), Exit(1)}

RoleOf(p) ==
    IF p = container THEN "container"
    ELSE (CHOOSE r \in {launched[k] : k \in DOMAIN launched} : r.pid = p).role

----------------------------------------------------------------------------
(* The state payload: a JSON object, as its list of key/value pairs.       *)

StateOutputs(c) == { <<<<"pid", c>>>>, <<<<"bundle", 0>>, <<"pid", c>>>>, <<<<"bundle", 0>>>> }

\* json.loads(...)["pid"]; 0 stands for the exception a failed decode raises
PidOf(bytes) ==
    IF \E k \in DOMAIN bytes : bytes[k][1] = "pid"
    THEN bytes[CHOOSE k \in DOMAIN bytes : bytes[k][1] = "pid"][2]
    ELSE 0

----------------------------------------------------------------------------
Init ==
    /\ hookFile \in HookFiles
    /\ pc = "main"
    /\ hooks = EmptyDict
    /\ handler = FALSE
    /\ subreaper = FALSE
    /\ children = {}
    /\ zombies = {}
    /\ exited = <<>>
    /\ ledger = <<>>
    /\ sigPending = FALSE
    /\ handlerDepth = 0
    /\ launched = <<>>
    /\ nextPid = 1
    /\ container = 0
    /\ stdout = <<>>
    /\ process = 0
    /\ state_bytes = <<>>
    /\ container_pid = 0
    /\ status = 0
    /\ event = "none"
    /\ i = 0
    /\ deleteFrom = "none"
    /\ exitCode = -1
    /\ error = "none"

----------------------------------------------------------------------------
(* The supervisor's own steps.  Python runs a pending signal handler       *)
(* before the next bytecode, so a step made of bytecodes needs no pending  *)
(* SIGCHLD; a step that enters a blocking system call can be overtaken.    *)

Running == handlerDepth = 0 /\ ~sigPending /\ pc \notin {"exited", "crashed"}

PausedPcs == {"create_paused", "state_paused", "hook_paused", "start_paused",
              "container_paused", "delete_paused"}

\* where the flow resumes when pause() returns: the loop's test
Resume(p) ==
    CASE p = "create_paused" -> "create_loop"
      [] p = "state_paused" -> "state_loop"
      [] p = "hook_paused" -> "hook_loop"
      [] p = "start_paused" -> "start_loop"
      [] p = "container_paused" -> "container_loop"
      [] p = "delete_paused" -> "delete_loop"
      [] OTHER -> p

Popen(role, idx, input) ==
    /\ launched' = Append(launched, [role |-> role, index |-> idx, pid |-> nextPid, input |-> input])
    /\ children' = children \cup {nextPid}
    /\ process' = nextPid
    /\ nextPid' = nextPid + 1

SysExit(code) == pc' = "exited" /\ exitCode' = code

Raise(exc) == pc' = "crashed" /\ error' = exc

\* a failure branch that falls through to the teardown of line 176
CallDeleteFinal(from) == deleteFrom' = "final" /\ pc' = "delete"

\* the call of _delete(...) from one of its four call sites
CallDelete(from) == deleteFrom' = from /\ pc' = "delete"

\* `while pid not in _REAPED_CHILDREN`
Reaped(pid) == pid \in DOMAIN ledger

\* signal.pause(): the call is entered; it returns after a handler has run
SignalPause(here, paused) ==
    /\ pc = here
    /\ handlerDepth = 0
    /\ pc' = paused
    /\ UNCHANGED <<hookFile, hooks, handler, subreaper, children, zombies, exited,
                   ledger, sigPending, handlerDepth, launched, nextPid, container,
                   stdout, process, state_bytes, container_pid, status, event, i,
                   deleteFrom, exitCode, error>>

\* a main that installs the handler and leaves the subreaper attribute unset
MainNoSubreaper ==
    /\ pc = "main"
    /\ handler' = TRUE
    /\ subreaper' = FALSE
    /\ pc' = "get_hooks"
    /\ UNCHANGED <<hookFile, hooks, children, zombies, exited, ledger, sigPending,
                   handlerDepth, launched, nextPid, container, stdout, process,
                   state_bytes, container_pid, status, event, i, deleteFrom,
                   exitCode, error>>

Main ==
    /\ pc = "main"
    /\ handler' = TRUE
    /\ subreaper' = TRUE
    /\ pc' = "get_hooks"
    /\ UNCHANGED <<hookFile, hooks, children, zombies, exited, ledger, sigPending,
                   handlerDepth, launched, nextPid, container, stdout, process,
                   state_bytes, container_pid, status, event, i, deleteFrom,
                   exitCode, error>>

GetHooks ==
    /\ pc = "get_hooks"
    /\ Running
    /\ IF HasTimeoutHook(LoadedHooks(hookFile))
       THEN Raise("NotImplementedError") /\ UNCHANGED hooks
       ELSE hooks' = LoadedHooks(hookFile) /\ pc' = "create" /\ UNCHANGED error
    /\ UNCHANGED <<hookFile, handler, subreaper, children, zombies, exited, ledger,
                   sigPending, handlerDepth, launched, nextPid, container, stdout,
                   process, state_bytes, container_pid, status, event, i,
                   deleteFrom, exitCode>>

----------------------------------------------------------------------------
(* create: lines 114-121.  The runtime binary is taken to be present, so   *)
(* the Popen of a runtime subcommand succeeds; a hook's Popen may fail.    *)

\* a status test that takes only a negative status for a failure
StageFailedNegative(st) == st < 0

\* `if status != 0` of lines 120, 135 and 158
StageFailed(st) == st # 0

CreatePopen ==
    /\ pc = "create"
    /\ Running
    /\ Popen("create", 0, <<>>)
    /\ pc' = "create_loop"
    /\ UNCHANGED <<hookFile, hooks, handler, subreaper, zombies, exited, ledger,
                   sigPending, handlerDepth, container, stdout, state_bytes,
                   container_pid, status, event, i, deleteFrom, exitCode, error>>

CreateLoop ==
    /\ pc = "create_loop"
    /\ Running
    /\ IF Reaped(process)
       THEN /\ status' = ledger[process]
            /\ IF StageFailed(ledger[process])
               THEN SysExit(1)
               ELSE pc' = "state" /\ UNCHANGED exitCode
       ELSE pc' = "create_pause" /\ UNCHANGED <<status, exitCode>>
    /\ UNCHANGED <<hookFile, hooks, handler, subreaper, children, zombies, exited,
                   ledger, sigPending, handlerDepth, launched, nextPid, container,
                   stdout, process, state_bytes, container_pid, event, i,
                   deleteFrom, error>>

CreatePause == SignalPause("create_pause", "create_paused")

----------------------------------------------------------------------------
(* state: lines 123-141 *)

StatePopen ==
    /\ pc = "state"
    /\ Running
    /\ Popen("state", 0, <<>>)
    /\ pc' = "communicate"
    /\ UNCHANGED <<hookFile, hooks, handler, subreaper, zombies, exited, ledger,
                   sigPending, handlerDepth, container, stdout, state_bytes,
                   container_pid, status, event, i, deleteFrom, exitCode, error>>

\* Popen.communicate(): read the output to end of file, which the child's exit
\* brings, then Popen.wait(): waitpid on the child, which collects it if no
\* other wait call has, and tolerates "no such child" if one has.
Communicate ==
    /\ pc = "communicate"
    /\ handlerDepth = 0
    /\ process \in DOMAIN exited
    /\ state_bytes' = stdout
    /\ zombies' = zombies \ {process}
    /\ pc' = "state_loop"
    /\ UNCHANGED <<hookFile, hooks, handler, subreaper, children, exited, ledger,
                   sigPending, handlerDepth, launched, nextPid, container, stdout,
                   process, container_pid, status, event, i, deleteFrom, exitCode,
                   error>>

StateLoop ==
    /\ pc = "state_loop"
    /\ Running
    /\ IF Reaped(process)
       THEN /\ status' = ledger[process]
            /\ IF StageFailed(ledger[process])
               THEN CallDelete("state")
               ELSE pc' = "loads" /\ UNCHANGED deleteFrom
       ELSE pc' = "state_pause" /\ UNCHANGED <<status, deleteFrom>>
    /\ UNCHANGED <<hookFile, hooks, handler, subreaper, children, zombies, exited,
                   ledger, sigPending, handlerDepth, launched, nextPid, container,
                   stdout, process, state_bytes, container_pid, event, i,
                   exitCode, error>>

StatePause == SignalPause("state_pause", "state_paused")

\* a loop over hooks.get(ev, [])[1:]: the first hook of each event is skipped
ForHooksSkipFirst(ev, k, after) ==
    IF k + 1 < Len(HooksGet(hooks, ev))
    THEN event' = ev /\ i' = k + 2 /\ pc' = "hook" /\ UNCHANGED deleteFrom
    ELSE /\ event' = ev /\ i' = k
         /\ IF after = "delete" THEN CallDelete("final")
                                ELSE pc' = after /\ UNCHANGED deleteFrom

\* the head of a `for i, hook in enumerate(hooks.get(ev, []))` loop, reached
\* with k hooks of the list done: the next hook, or the statement after the loop
\* (after the poststop loop, the _delete of line 176)
ForHooks(ev, k, after) ==
    IF k < Len(HooksGet(hooks, ev))
    THEN event' = ev /\ i' = k + 1 /\ pc' = "hook" /\ UNCHANGED deleteFrom
    ELSE /\ event' = ev /\ i' = k
         /\ IF after = "delete" THEN CallDelete("final")
                                ELSE pc' = after /\ UNCHANGED deleteFrom

Loads ==
    /\ pc = "loads"
    /\ Running
    /\ IF PidOf(state_bytes) = 0
       THEN Raise("DecodeError") /\ UNCHANGED <<container_pid, event, i, deleteFrom>>
       ELSE /\ container_pid' = PidOf(state_bytes)
            /\ ForHooks("prestart", 0, "start")
            /\ UNCHANGED error
    /\ UNCHANGED <<hookFile, hooks, handler, subreaper, children, zombies, exited,
                   ledger, sigPending, handlerDepth, launched, nextPid, container,
                   stdout, process, state_bytes, status, exitCode>>

----------------------------------------------------------------------------
(* _run_hook: lines 71-93, and its three callers' loops *)

\* callers that all leave `strict` at its default
StrictAlways(ev) == TRUE

\* callers that all pass strict=False
StrictNever(ev) == FALSE

\* the `strict` argument the caller of _run_hook passes for a hook of `ev`
Strict(ev) == ev = "prestart"

\* whether the caller's loop over `ev` calls _run_hook inside try/except HookError
CatchesHookError(ev) == ev = "prestart"

\* a _run_hook whose `status` is main's
StatusFromHook(mainStatus, hookStatus) == hookStatus

\* main's `status` after a _run_hook that returned: _run_hook's `status`
\* (hookStatus) is a local of its own
StatusAfterHook(mainStatus, hookStatus) == mainStatus

\* the statement after the hook loop of `ev`
\* a main whose prestart loop is followed by the wait for the container
AfterHooksSkipStart(ev) ==
    CASE ev = "prestart" -> "container_loop"
      [] ev = "poststart" -> "container_loop"
      [] OTHER -> "delete"

\* a main whose poststart loop is followed by the final _delete
AfterHooksSkipWait(ev) ==
    CASE ev = "prestart" -> "start"
      [] ev = "poststart" -> "delete"
      [] OTHER -> "delete"

AfterHooks(ev) ==
    CASE ev = "prestart" -> "start"
      [] ev = "poststart" -> "container_loop"
      [] OTHER -> "delete"

\* a _run_hook that writes the decoded state, serialised again
HookInputReencoded(bytes) == <<<<"pid", PidOf(bytes)>>>>

\* what _run_hook writes to the hook's stdin: lines 83-85
HookInput(bytes) == bytes

\* Popen of the hook and the write of state_bytes to its stdin (a payload the
\* pipe buffer holds; BrokenPipeError is swallowed).  Popen raises OSError when
\* the executable cannot be run; no caller handles it.
RunHookPopen ==
    /\ pc = "hook"
    /\ Running
    /\ \/ /\ Popen(event, i, HookInput(state_bytes))
          /\ pc' = "hook_loop"
          /\ UNCHANGED error
       \/ /\ Raise("OSError")
          /\ UNCHANGED <<launched, children, process, nextPid>>
    /\ UNCHANGED <<hookFile, hooks, handler, subreaper, zombies, exited, ledger,
                   sigPending, handlerDepth, container, stdout, state_bytes,
                   container_pid, status, event, i, deleteFrom, exitCode>>

\* lines 88-93 and, back in main: the except clause (147-149), the unhandled
\* HookError, or the next iteration of the caller's loop
RunHookLoop ==
    /\ pc = "hook_loop"
    /\ Running
    /\ IF Reaped(process)
       THEN IF ledger[process] # 0 /\ Strict(event)
            THEN IF CatchesHookError(event)
                 THEN /\ status' = ledger[process]
                      /\ CallDelete("prestart")
                      /\ UNCHANGED <<event, i, error>>
                 ELSE /\ Raise("HookError")
                      /\ UNCHANGED <<status, event, i, deleteFrom>>
            ELSE /\ ForHooks(event, i, AfterHooks(event))
                 /\ status' = StatusAfterHook(status, ledger[process])
                 /\ UNCHANGED error
       ELSE pc' = "hook_pause" /\ UNCHANGED <<status, event, i, deleteFrom, error>>
    /\ UNCHANGED <<hookFile, hooks, handler, subreaper, children, zombies, exited,
                   ledger, sigPending, handlerDepth, launched, nextPid, container,
                   stdout, process, state_bytes, container_pid, exitCode>>

RunHookPause == SignalPause("hook_pause", "hook_paused")

----------------------------------------------------------------------------
(* start: lines 152-160 *)

StartPopen ==
    /\ pc = "start"
    /\ Running
    /\ Popen("start", 0, <<>>)
    /\ pc' = "start_loop"
    /\ UNCHANGED <<hookFile, hooks, handler, subreaper, zombies, exited, ledger,
                   sigPending, handlerDepth, container, stdout, state_bytes,
                   container_pid, status, event, i, deleteFrom, exitCode, error>>

StartLoop ==
    /\ pc = "start_loop"
    /\ Running
    /\ IF Reaped(process)
       THEN /\ status' = ledger[process]
            /\ IF StageFailed(ledger[process])
               THEN CallDelete("start") /\ UNCHANGED <<event, i>>
               ELSE ForHooks("poststart", 0, "container_loop")
       ELSE pc' = "start_pause" /\ UNCHANGED <<status, event, i, deleteFrom>>
    /\ UNCHANGED <<hookFile, hooks, handler, subreaper, children, zombies, exited,
                   ledger, sigPending, handlerDepth, launched, nextPid, container,
                   stdout, process, state_bytes, container_pid, exitCode, error>>

StartPause == SignalPause("start_pause", "start_paused")

----------------------------------------------------------------------------
(* the wait for the container's main process: lines 166-170 *)

ContainerLoop ==
    /\ pc = "container_loop"
    /\ Running
    /\ IF Reaped(container_pid)
       THEN /\ status' = ledger[container_pid]
            /\ ForHooks("poststop", 0, "delete")
       ELSE pc' = "container_pause" /\ UNCHANGED <<status, event, i, deleteFrom>>
    /\ UNCHANGED <<hookFile, hooks, handler, subreaper, children, zombies, exited,
                   ledger, sigPending, handlerDepth, launched, nextPid, container,
                   stdout, process, state_bytes, container_pid, exitCode, error>>

ContainerPause == SignalPause("container_pause", "container_paused")

----------------------------------------------------------------------------
(* _delete: lines 96-102, and what its caller does when it returns *)

\* lines 177-178
Clamp(st) == IF st > 127 THEN 127 ELSE st

\* every exit after _delete passing the clamped status on
ExitArgStatus(from, st) == Clamp(st)

\* the argument of the sys.exit that follows the _delete called from `from`
ExitArg(from, st) == IF from = "final" THEN Clamp(st) ELSE 1

DeletePopen ==
    /\ pc = "delete"
    /\ Running
    /\ Popen("delete", 0, <<>>)
    /\ pc' = "delete_loop"
    /\ UNCHANGED <<hookFile, hooks, handler, subreaper, zombies, exited, ledger,
                   sigPending, handlerDepth, container, stdout, state_bytes,
                   container_pid, status, event, i, deleteFrom, exitCode, error>>

DeleteLoop ==
    /\ pc = "delete_loop"
    /\ Running
    /\ IF Reaped(process)
       THEN SysExit(ExitArg(deleteFrom, status))
       ELSE pc' = "delete_pause" /\ UNCHANGED exitCode
    /\ UNCHANGED <<hookFile, hooks, handler, subreaper, children, zombies, exited,
                   ledger, sigPending, handlerDepth, launched, nextPid, container,
                   stdout, process, state_bytes, container_pid, status, event, i,
                   deleteFrom, error>>

DeletePause == SignalPause("delete_pause", "delete_paused")

----------------------------------------------------------------------------
(* _reap, the SIGCHLD handler: lines 47-50 *)

\* Python calls the handler: between two bytecodes, or when the system call
\* the flow is blocked in returns.  A flow that entered pause() with the
\* notification already noted stays in pause() until the next signal.
ReapEnter ==
    /\ sigPending
    /\ handler
    /\ pc \notin PausedPcs \cup {"exited", "crashed"}
    /\ sigPending' = FALSE
    /\ handlerDepth' = handlerDepth + 1
    /\ UNCHANGED <<hookFile, pc, hooks, handler, subreaper, children, zombies,
                   exited, ledger, launched, nextPid, container, stdout, process,
                   state_bytes, container_pid, status, event, i, deleteFrom,
                   exitCode, error>>

\* the pids one os.wait() call can return
WaitChoices == zombies

\* a handler that rebinds the ledger to a dict of the latest child only
StoreLatest(l, pid, st) == (pid :> st)

\* _REAPED_CHILDREN[pid] = status: line 50
Store(l, pid, st) == (pid :> st) @@ l

\* os.wait() and the store into _REAPED_CHILDREN.  os.wait() returns one
\* exited child, blocks while children exist and none has exited, and raises
\* ChildProcessError when the process has no children; the exception leaves
\* the handler into the interrupted flow, where nothing handles it.
Reap ==
    /\ handlerDepth > 0
    /\ pc \notin {"exited", "crashed"}
    /\ IF zombies # {}
       THEN /\ \E p \in WaitChoices :
                 /\ ledger' = Store(ledger, p, WaitStatus(exited[p]))
                 /\ zombies' = zombies \ {p}
            /\ handlerDepth' = handlerDepth - 1
            /\ UNCHANGED <<pc, error>>
       ELSE /\ children = {}
            /\ Raise("ChildProcessError")
            /\ handlerDepth' = 0
            /\ UNCHANGED <<ledger, zombies>>
    /\ UNCHANGED <<hookFile, hooks, handler, subreaper, children, exited, sigPending,
                   launched, nextPid, container, stdout, process, state_bytes,
                   container_pid, status, event, i, deleteFrom, exitCode>>

----------------------------------------------------------------------------
(* The children.  A child's exit makes it a zombie and sends SIGCHLD; a     *)
(* flow blocked in pause() is woken by it.                                 *)

Notify ==
    /\ sigPending' = handler
    /\ pc' = Resume(pc)

\* a hook, start, delete or the container's main process ends
ChildExit ==
    /\ pc \notin {"exited", "crashed"}
    /\ \E p \in children : \E o \in Outcomes(RoleOf(p)) :
         /\ RoleOf(p) \notin {"create", "state"}
         /\ children' = children \ {p}
         /\ zombies' = zombies \cup {p}
         /\ exited' = (p :> o) @@ exited
    /\ Notify
    /\ UNCHANGED <<hookFile, hooks, handler, subreaper, ledger, handlerDepth,
                   launched, nextPid, container, stdout, process, state_bytes,
                   container_pid, status, event, i, deleteFrom, exitCode, error>>

\* `create` ends.  On success it leaves the container's main process behind,
\* which the kernel reparents to the supervisor, a subreaper.
CreateExit ==
    /\ pc \notin {"exited", "crashed"}
    /\ \E p \in children : \E o \in Outcomes("create") :
         /\ RoleOf(p) = "create"
         /\ zombies' = zombies \cup {p}
         /\ exited' = (p :> o) @@ exited
         /\ IF o = Exit(0) /\ subreaper
            THEN /\ children' = (children \ {p}) \cup {nextPid}
                 /\ container' = nextPid
                 /\ nextPid' = nextPid + 1
            ELSE /\ children' = children \ {p}
                 /\ UNCHANGED <<container, nextPid>>
    /\ Notify
    /\ UNCHANGED <<hookFile, hooks, handler, subreaper, ledger, handlerDepth,
                   launched, stdout, process, state_bytes, container_pid, status,
                   event, i, deleteFrom, exitCode, error>>

\* `state` ends: with the state payload on its output and status 0, or with
\* nothing on its output and a non-zero status
StateExit ==
    /\ pc \notin {"exited", "crashed"}
    /\ \E p \in children : \E o \in Outcomes("state") :
         /\ RoleOf(p) = "state"
         /\ children' = children \ {p}
         /\ zombies' = zombies \cup {p}
         /\ exited' = (p :> o) @@ exited
         /\ IF o = Exit(0)
            THEN stdout' \in StateOutputs(container)
            ELSE stdout' = <<>>
    /\ Notify
    /\ UNCHANGED <<hookFile, hooks, handler, subreaper, ledger, handlerDepth,
                   launched, nextPid, container, process, state_bytes,
                   container_pid, status, event, i, deleteFrom, exitCode, error>>

----------------------------------------------------------------------------
Next ==
    \/ Main
    \/ GetHooks
    \/ CreatePopen
    \/ CreateLoop
    \/ CreatePause
    \/ StatePopen
    \/ Communicate
    \/ StateLoop
    \/ StatePause
    \/ Loads
    \/ RunHookPopen
    \/ RunHookLoop
    \/ RunHookPause
    \/ StartPopen
    \/ StartLoop
    \/ StartPause
    \/ ContainerLoop
    \/ ContainerPause
    \/ DeletePopen
    \/ DeleteLoop
    \/ DeletePause
    \/ ReapEnter
    \/ Reap
    \/ ChildExit
    \/ CreateExit
    \/ StateExit

Spec == Init /\ [][Next]_vars

----------------------------------------------------------------------------
(* What the claims speak of. *)

\* the positions in `launched` of the Popen calls of one role
Launches(role) == {k \in DOMAIN launched : launched[k].role = role}

\* a process of the role was launched and ended otherwise than by exit(0)
Failed(role) ==
    \E k \in Launches(role) :
        launched[k].pid \in DOMAIN exited /\ exited[launched[k].pid] # Exit(0)

\* nothing can happen any more: every child has ended, no notification is to
\* be handled and the supervisor has exited or waits
Quiescent == ~ENABLED Next

\* the pid the wait loop the supervisor is in waits for
Awaited == IF pc \in {"container_loop", "container_pause", "container_paused"}
           THEN container_pid ELSE process

DeletePcs == {"delete", "delete_loop", "delete_pause", "delete_paused"}

Count(role) == Cardinality(Launches(role))

----------------------------------------------------------------------------
\* C1: once nothing more can happen and every SIGCHLD that arrived has been
\* handled by _reap, _REAPED_CHILDREN has an entry for every pid the supervisor
\* spawned that has exited, also when one SIGCHLD stood for several exits.
C1_EveryExitRecorded ==
    (Quiescent /\ ~sigPending) =>
        \A k \in DOMAIN launched :
            launched[k].pid \in DOMAIN exited => launched[k].pid \in DOMAIN ledger

\* C2: the supervisor is never left in pause() for good when the pid its wait
\* loop waits for has exited and has been reaped into the ledger.
C2_WaitReturns ==
    (Quiescent /\ pc \in PausedPcs) => Awaited \notin DOMAIN ledger

\* C3: after a prestart hook has exited with a non-zero status nothing but one
\* delete is launched after it (no further prestart hook, no start); the
\* supervisor only finishes that hook's wait, runs _delete and exits; and when
\* it has exited, delete was launched exactly once and the exit code is 1.
C3_PrestartFailureAborts ==
    \A k \in Launches("prestart") :
        (launched[k].pid \in DOMAIN exited /\ exited[launched[k].pid] # Exit(0)) =>
            /\ \A j \in DOMAIN launched : j > k => launched[j].role = "delete"
            /\ Count("start") = 0
            /\ Count("delete") <= 1
            /\ pc \in {"hook_loop", "hook_pause", "hook_paused", "exited"} \cup DeletePcs
            /\ pc = "exited" => (Count("delete") = 1 /\ exitCode = 1)

C3_Witness ==
    /\ pc = "exited"
    /\ Len(HooksGet(hooks, "prestart")) >= 2
    /\ \E k \in Launches("prestart") :
          launched[k].index = 1 /\ exited[launched[k].pid] = Exit(17)

\* C4: after the state subcommand has exited non-zero no hook and no start is
\* ever launched, the supervisor only finishes the state wait, runs _delete and
\* exits; and when it has exited, delete was launched exactly once and the exit
\* code is 1.
C4_StateFailureDeletes ==
    Failed("state") =>
        /\ \A ev \in EventNames : Count(ev) = 0
        /\ Count("start") = 0
        /\ Count("delete") <= 1
        /\ pc \in {"communicate", "state_loop", "state_pause", "state_paused",
                   "exited", "crashed"} \cup DeletePcs
        /\ pc = "crashed" => error = "ChildProcessError"
        /\ pc = "exited" => (Count("delete") = 1 /\ exitCode = 1)

C4_Witness ==
    /\ Failed("state")
    /\ pc = "exited"
    /\ \A ev \in EventNames : Len(HooksGet(hooks, ev)) >= 1

\* C5: on the success path the final exit code is the container's own exit
\* status when that is at most 127 (9 gives 9) and 127 otherwise (200 gives 127).
C5_ExitStatusPropagates ==
    (pc = "exited" /\ deleteFrom = "final" /\ exited[container].kind = "exit") =>
        exitCode = IF exited[container].n <= 127 THEN exited[container].n ELSE 127

\* C6: a poststart hook that exited non-zero raises nothing and starts no
\* failure branch; the supervisor reaches the wait for the container only with
\* every poststart hook launched, and it returns from the final _delete only
\* with the container's status in the ledger, every poststop hook launched
\* and, after them, delete launched once.
C6_PoststartFailureContinues ==
    Failed("poststart") =>
        /\ error \in {"none", "OSError"}
        /\ deleteFrom \in {"none", "final"}
        /\ (pc \in {"container_loop", "container_pause", "container_paused", "exited"}
                   \cup DeletePcs
              => Count("poststart") = Len(HooksGet(hooks, "poststart")))
        /\ (pc \in {"delete_loop", "delete_pause", "delete_paused", "exited"}
              => /\ container_pid \in DOMAIN ledger
                 /\ Count("poststop") = Len(HooksGet(hooks, "poststop"))
                 /\ Count("delete") = 1
                 /\ launched[Len(launched)].role = "delete")

C6_Witness ==
    /\ pc = "exited"
    /\ Len(HooksGet(hooks, "poststart")) >= 2
    /\ Len(HooksGet(hooks, "poststop")) >= 1
    /\ \E k \in Launches("poststart") :
          launched[k].index = 1 /\ exited[launched[k].pid] = Exit(17)

\* C7: after create has exited non-zero nothing else is ever launched (no
\* delete, no state, no hook, no start), and the supervisor's exit code is 1.
C7_CreateFailureExits ==
    Failed("create") =>
        /\ Len(launched) = 1
        /\ pc \in {"create_loop", "create_pause", "create_paused", "exited"}
        /\ pc = "exited" => exitCode = 1

C7_Witness == Failed("create") /\ pc = "exited" /\ exitCode = 1

\* C8: after start has exited non-zero no poststart and no poststop hook is
\* launched, the supervisor never enters the wait for the container, it only
\* finishes the start wait, runs _delete and exits; and when it has exited,
\* delete was launched exactly once and the exit code is 1.
C8_StartFailureDeletes ==
    Failed("start") =>
        /\ Count("poststart") = 0
        /\ Count("poststop") = 0
        /\ Count("delete") <= 1
        /\ pc \in {"start_loop", "start_pause", "start_paused", "exited"} \cup DeletePcs
        /\ pc = "exited" => (Count("delete") = 1 /\ exitCode = 1)

C8_Witness ==
    /\ Failed("start")
    /\ pc = "exited"
    /\ Len(HooksGet(hooks, "poststart")) >= 1
    /\ Len(HooksGet(hooks, "poststop")) >= 1
    /\ container \in children

\* C9: with a hook object that has a timeout key anywhere in the hook file,
\* the run ends in _get_hooks with NotImplementedError and no subprocess is
\* ever spawned.
C9_TimeoutRejected ==
    (\E ev \in EventNames : \E k \in DOMAIN HooksGet(hookFile.content, ev) :
            HooksGet(hookFile.content, ev)[k].timeout) =>
        /\ launched = <<>>
        /\ nextPid = 1
        /\ pc \in {"main", "get_hooks", "crashed"}
        /\ pc = "crashed" => error = "NotImplementedError"

C9_Witness ==
    /\ pc = "crashed"
    /\ error = "NotImplementedError"
    /\ \E k \in DOMAIN HooksGet(hookFile.content, "poststop") :
          HooksGet(hookFile.content, "poststop")[k].timeout
    /\ \A ev \in {"prestart", "poststart"} : \A k \in DOMAIN HooksGet(hookFile.content, ev) :
          ~HooksGet(hookFile.content, ev)[k].timeout

\* C10: the exit code is a function of how create, state, the prestart hooks,
\* start and the container ended, and of nothing else: runs that differ only
\* in the statuses of poststart hooks, poststop hooks and delete exit alike.
C10_ExitCodeIndependent ==
    pc = "exited" =>
        exitCode = IF Failed("create") \/ Failed("state") \/ Failed("prestart")
                      \/ Failed("start")
                   THEN 1
                   ELSE IF WaitStatus(exited[container]) > 127
                        THEN 127 ELSE WaitStatus(exited[container])

C10_Witness ==
    /\ pc = "exited"
    /\ deleteFrom = "final"
    /\ exitCode = 0
    /\ Failed("poststart")
    /\ Failed("poststop")
    /\ Failed("delete")

\* C11: the state subcommand is run at most once, state_bytes is what it wrote
\* from the moment communicate() has returned, and every prestart, poststart
\* and poststop hook launched was given exactly those bytes.
C11_HooksGetStateBytes ==
    /\ Count("state") <= 1
    /\ pc \notin {"main", "get_hooks", "create", "create_loop", "create_pause",
                  "create_paused", "state", "communicate"}
         => (state_bytes = stdout \/ (pc \in {"exited", "crashed"} /\ Count("state") = 0))
    /\ \A k \in DOMAIN launched :
         launched[k].role \in EventNames => launched[k].input = stdout

C11_Witness ==
    /\ pc = "exited"
    /\ deleteFrom = "final"
    /\ Len(stdout) = 2
    /\ \A ev \in EventNames : Count(ev) >= 1

\* the subcommands and hooks launched so far, in launch order
Roles == [k \in DOMAIN launched |-> launched[k].role]

IsPrefix(s, t) == Len(s) <= Len(t) /\ \A k \in DOMAIN s : s[k] = t[k]

\* the hook file defines no hook: it is missing, or every event's list is empty
NoHooksDefined == ~hookFile.present \/ \A ev \in EventNames : hookFile.content[ev] = <<>>

\* C12: a run whose hook file is missing and a run whose hook file is present
\* and defines no hook behave alike: in both no hook is launched, and the
\* sequence of runtime subcommands and the exit code are the same function of
\* how the subcommands and the container ended, whichever of the two it is.
C12_MissingFileIsNoHooks ==
    NoHooksDefined =>
        /\ \A ev \in EventNames : Count(ev) = 0
        /\ IsPrefix(Roles, IF Failed("create") THEN <<"create">>
                           ELSE IF Failed("state") THEN <<"create", "state", "delete">>
                           ELSE <<"create", "state", "start", "delete">>)
        /\ pc = "exited" =>
             /\ Roles = IF Failed("create") THEN <<"create">>
                        ELSE IF Failed("state") THEN <<"create", "state", "delete">>
                        ELSE <<"create", "state", "start", "delete">>
             /\ exitCode = IF Failed("create") \/ Failed("state") \/ Failed("start")
                           THEN 1
                           ELSE IF WaitStatus(exited[container]) > 127
                                THEN 127 ELSE WaitStatus(exited[container])

C12_Witness ==
    /\ ~hookFile.present
    /\ pc = "exited"
    /\ deleteFrom = "final"
    /\ Roles = <<"create", "state", "start", "delete">>

\* _reap is inside its os.wait() with no exited child to return and a child
\* still running: the handler is blocked
HandlerBlocked == handlerDepth > 0 /\ zombies = {} /\ children # {}

\* C13: _reap drains without blocking.  A child that exited raised SIGCHLD, and
\* the flag is cleared only when a handler begins; so once every handler has
\* returned and no notification is pending, a child still unreaped had exited
\* when a handler began and was left behind by it.  No such child exists, and
\* the handler never waits on a child that is still running.
C13_ReapDrains ==
    /\ (handlerDepth = 0 /\ ~sigPending) => zombies = {}
    /\ ~HandlerBlocked

StatePcs == {"communicate", "state_loop", "state_pause", "state_paused"}

\* C14: in the state stage the state process's exit status reaches the
\* supervisor through _REAPED_CHILDREN: once the process has been collected its
\* status is in the ledger, whoever of communicate() and _reap ran first; the
\* stage never ends up waiting with nothing left to happen, _reap never fails
\* with "no children", and it never blocks on the container that is still alive.
C14_StateStatusFromLedger ==
    /\ \A k \in Launches("state") :
         (launched[k].pid \in DOMAIN exited /\ launched[k].pid \notin zombies)
             => launched[k].pid \in DOMAIN ledger
    /\ error # "ChildProcessError"
    /\ pc \in StatePcs => ~Quiescent /\ ~HandlerBlocked

\* the place of a subprocess in main's text
Rank(role) ==
    CASE role = "create" -> 1
      [] role = "state" -> 2
      [] role = "prestart" -> 3
      [] role = "start" -> 4
      [] role = "poststart" -> 5
      [] role = "poststop" -> 6
      [] OTHER -> 7

\* the hooks of an event, one launch each
HookRun(ev) == [k \in 1..Len(HooksGet(hooks, ev)) |-> ev]

\* the process was launched, and the ledger holds status 0 for each launch
ExitedZero(role) ==
    \A k \in Launches(role) :
        launched[k].pid \in DOMAIN ledger /\ ledger[launched[k].pid] = 0

\* C15: the stages run one at a time in main's order.  Every subprocess but the
\* latest has its exit in the ledger, so a launch follows the observation of
\* the previous exit; launches never go back to an earlier stage; start is
\* launched only after create, state and every prestart hook left status 0 in
\* the ledger; and a run that reaches the final delete launched create, state,
\* the prestart hooks, start, the poststart hooks, the poststop hooks, delete.
C15_StagesInOrder ==
    /\ \A k \in DOMAIN launched :
         k < Len(launched) => launched[k].pid \in DOMAIN ledger
    /\ \A j, k \in DOMAIN launched :
         j < k => /\ Rank(launched[j].role) <= Rank(launched[k].role)
                  /\ Rank(launched[j].role) = Rank(launched[k].role)
                       => launched[j].role \in EventNames
    /\ Count("start") > 0 =>
         /\ Count("create") = 1 /\ ExitedZero("create")
         /\ Count("state") = 1 /\ ExitedZero("state")
         /\ Count("prestart") = Len(HooksGet(hooks, "prestart"))
         /\ ExitedZero("prestart")
    /\ (pc = "exited" /\ deleteFrom = "final") =>
         Roles = <<"create", "state">> \o HookRun("prestart") \o <<"start">>
                 \o HookRun("poststart") \o HookRun("poststop") \o <<"delete">>

C15_Witness ==
    /\ pc = "exited"
    /\ deleteFrom = "final"
    /\ \A ev \in EventNames : Count(ev) = MaxHooks

\* the launches of hooks, of any event
HookLaunches == {k \in DOMAIN launched : launched[k].role \in EventNames}

\* C16: the hooks of an event are launched in declaration order, one after the
\* other: the n-th launch of an event is the n-th hook of its list, a hook is
\* launched only when the ledger holds the status of every hook launched
\* before it, and at no time do two hook processes lack a ledger entry.
C16_HooksSequential ==
    /\ \A ev \in EventNames : \A k \in Launches(ev) :
         launched[k].index = Cardinality({j \in Launches(ev) : j <= k})
    /\ \A j, k \in HookLaunches : j < k => launched[j].pid \in DOMAIN ledger
    /\ Cardinality({k \in HookLaunches : launched[k].pid \notin DOMAIN ledger}) <= 1

C16_Witness ==
    /\ Count("prestart") = MaxHooks
    /\ \E k \in Launches("prestart") :
         /\ launched[k].index = MaxHooks
         /\ launched[k].pid \in children

\* C17: a poststop hook or the final delete is launched only when the ledger
\* holds a status for the container's main process, whose pid is the one the
\* state payload gave; from then on `status` is that entry.  And when the entry
\* is already there as the wait stage tests for it (the container ended
\* earlier, say during the poststart hooks), the stage does not pause: its next
\* step goes on to the poststop hooks or the delete with the recorded status.
C17_ContainerExitFirst ==
    /\ [](\/ /\ Count("poststop") = 0
             /\ ~(deleteFrom = "final" /\ Count("delete") > 0)
          \/ /\ container_pid = PidOf(stdout)
             /\ container_pid = container
             /\ container_pid \in DOMAIN ledger
             /\ ledger[container_pid] = WaitStatus(exited[container])
             /\ pc # "exited" => status = ledger[container_pid])
    /\ [][(pc = "container_loop" /\ pc' # pc /\ container_pid \in DOMAIN ledger)
            => /\ pc' \in {"hook", "delete"}
               /\ status' = ledger[container_pid]
               /\ launched' = launched]_vars

C17_Witness ==
    /\ event = "poststart"
    /\ pc = "hook_loop"
    /\ i = Len(HooksGet(hooks, "poststart"))
    /\ Running
    /\ Reaped(process)
    /\ container_pid \in DOMAIN ledger
    /\ ledger[container_pid] = 200 * 256

\* C18: when the Popen of a prestart hook fails, the run ends as it does for a
\* prestart hook that exits non-zero: once nothing more can happen, no later
\* prestart hook and no start were launched and delete was launched once.
C18_SpawnFailureAborts ==
    (Quiescent /\ error = "OSError" /\ event = "prestart") =>
        /\ Count("prestart") = i - 1
        /\ Count("start") = 0
        /\ Count("delete") = 1

\* C19: _REAPED_CHILDREN only grows, and only _reap writes it.  A step keeps
\* every entry with its status; a step that changes the ledger is the
\* handler's, and adds the one child os.wait() collected in that step, which
\* had no entry before, with the status it ended with; the flow of main the
\* handler interrupted does not move in that step.
C19_LedgerGrowsByReap ==
    [][/\ \A p \in DOMAIN ledger : p \in DOMAIN ledger' /\ ledger'[p] = ledger[p]
       /\ ledger' # ledger =>
            /\ handlerDepth > 0
            /\ handlerDepth' = handlerDepth - 1
            /\ pc' = pc
            /\ \E p \in zombies :
                 /\ p \notin DOMAIN ledger
                 /\ DOMAIN ledger' = DOMAIN ledger \cup {p}
                 /\ ledger'[p] = WaitStatus(exited[p])
                 /\ zombies' = zombies \ {p}]_vars

C19_Witness ==
    /\ Cardinality(DOMAIN ledger) >= 5
    /\ container \in DOMAIN ledger
    /\ \E p \in DOMAIN ledger : ledger[p] # 0 /\ p # container

\* C20: a run in which create exited 0 and that ends in sys.exit launched
\* delete exactly once, as its last subprocess, and exits with delete's status
\* in the ledger; and whenever a subprocess has been spawned, the SIGCHLD
\* handler and the subreaper attribute had been set before.
C20_DeleteOnceAndLast ==
    /\ launched # <<>> => handler /\ subreaper
    /\ (pc = "exited" /\ Count("create") = 1 /\ ~Failed("create")) =>
         /\ Count("delete") = 1
         /\ launched[Len(launched)].role = "delete"
         /\ launched[Len(launched)].pid \in DOMAIN ledger
         /\ deleteFrom \in {"state", "prestart", "start", "final"}

C20_Witness ==
    /\ pc = "exited"
    /\ ~Failed("create")
    /\ deleteFrom = "prestart"
    /\ Count("delete") = 1
    /\ container \in children

====
